---- MODULE Spec2Model ----
(***************************************************************************)
(* Model of the convolution engine of cellular-automaton.                  *)
(*                                                                         *)
(* src/src/grid.rs (duplicated in src/src/main.rs) holds Grid, Kernel and  *)
(* the three methods Grid::convolve, Grid::convolve_par and                *)
(* Grid::convolve_fft.  src/src/rgba.rs holds the later trait-based        *)
(* SimpleConvolver, ParConvolver and FftConvolver.                         *)
(*                                                                         *)
(* An f32 is modelled as an exact rational <<n, d>> in lowest terms with   *)
(* d > 0, so that products and sums are computed exactly; the tolerances   *)
(* of the specification (1e-5, 1e-3) are far above f32 rounding error for  *)
(* the handful of taps of the kernels used here.                           *)
(***************************************************************************)
EXTENDS Integers, Sequences, FiniteSets, TLC

\* ------------------------------------------------------------------------
\* Bounds of the model
\* ------------------------------------------------------------------------
MaxCalls == 2

NumPieces == 2

\* ------------------------------------------------------------------------
\* f32 arithmetic on exact rationals
\* ------------------------------------------------------------------------
Abs(n) == IF n < 0 THEN 0 - n ELSE n

RECURSIVE Gcd(_, _)
Gcd(a, b) == IF b = 0 THEN a ELSE Gcd(b, a % b)

Rat(n, d) ==
    LET g == Gcd(Abs(n), d)
    IN  <<n \div g, d \div g>>

Zero == <<0, 1>>

One == <<1, 1>>

Lcm(a, b) == (a \div Gcd(a, b)) * b

RAdd(p, q) ==
    LET l == Lcm(p[2], q[2])
    IN  Rat(p[1] * (l \div p[2]) + q[1] * (l \div q[2]), l)

RNeg(p) == <<0 - p[1], p[2]>>

RMul(p, q) ==
    LET g1 == Gcd(Abs(p[1]), q[2])
        g2 == Gcd(Abs(q[1]), p[2])
    IN  Rat((p[1] \div g1) * (q[1] \div g2), (p[2] \div g2) * (q[2] \div g1))

RDivInt(p, n) == RMul(p, <<1, n>>)

RLeq(p, q) ==
    LET l == Lcm(p[2], q[2])
    IN  p[1] * (l \div p[2]) <= q[1] * (l \div q[2])

\* f32::clamp(0.0, 1.0)
clamp01(p) == IF RLeq(p, Zero) THEN Zero ELSE IF RLeq(One, p) THEN One ELSE p

InUnit(p) == RLeq(Zero, p) /\ RLeq(p, One)

\* |p - q| <= 1 / inv   (inv = 100000 for 1e-5, 1000 for 1e-3)
Within(p, q, inv) ==
    LET d == RAdd(p, RNeg(q))
    IN  Abs(d[1]) <= d[2] \div inv

\* ------------------------------------------------------------------------
\* RGBA, Cell, Kernel
\* ------------------------------------------------------------------------
Channels == {"r", "g", "b", "a"}

RGBA(r, g, b, a) == [a |-> a, b |-> b, g |-> g, r |-> r]

Cell(color) == [color |-> color]

Kernel(w, h, cells) == [cells |-> cells, width |-> w, height |-> h]

\* a table of integer numerators over one denominator
Weights(rows, den) ==
    [y \in DOMAIN rows |-> [x \in DOMAIN rows[y] |-> Rat(rows[y][x], den)]]

gauss3 ==
    Kernel(3, 3, Weights(<< <<1, 2, 1>>,
                            <<2, 4, 2>>,
                            <<1, 2, 1>> >>, 16))

\* the mutant of gauss5: the centre weight is 35/256
gauss5_Centre35 ==
    Kernel(5, 5, Weights(<< <<1,  4,  6,  4, 1>>,
                            <<4, 16, 24, 16, 4>>,
                            <<6, 24, 35, 24, 6>>,
                            <<4, 16, 24, 16, 4>>,
                            <<1,  4,  6,  4, 1>> >>, 256))

gauss5 ==
    Kernel(5, 5, Weights(<< <<1,  4,  6,  4, 1>>,
                            <<4, 16, 24, 16, 4>>,
                            <<6, 24, 36, 24, 6>>,
                            <<4, 16, 24, 16, 4>>,
                            <<1,  4,  6,  4, 1>> >>, 256))

gauss7 ==
    Kernel(7, 7, Weights(<< << 1,   6,  15,  20,  15,   6,  1>>,
                            << 6,  36,  90, 120,  90,  36,  6>>,
                            <<15,  90, 225, 300, 225,  90, 15>>,
                            <<20, 120, 300, 400, 300, 120, 20>>,
                            <<15,  90, 225, 300, 225,  90, 15>>,
                            << 6,  36,  90, 120,  90,  36,  6>>,
                            << 1,   6,  15,  20,  15,   6,  1>> >>, 4096))

\* Kernel::center
center(k) == [x |-> k.width \div 2, y |-> k.height \div 2]

\* kernel.cells[ky][kx], 0-based as in the source
weight(k, kx, ky) == k.cells[ky + 1][kx + 1]

\* ------------------------------------------------------------------------
\* Grid accessors
\* ------------------------------------------------------------------------
\* Grid::index
index(w, x, y) == y * w + x

\* Grid::get: self.cells[self.index(x, y)] (Vec indexing is 0-based)
get(gcells, w, x, y) == gcells[index(w, x, y) + 1]

\* ------------------------------------------------------------------------
\* The tap loop shared by Grid::convolve and Grid::convolve_par:
\*   for ky in 0..kernel.height { for kx in 0..kernel.width { ... } }
\* ------------------------------------------------------------------------
TapInside(w, h, k, x, y, kx, ky) ==
    LET kc == center(k)
        dx == x + kx - kc.x
        dy == y + ky - kc.y
    IN  ~(dx < 0 \/ dy < 0) /\ ~(dx >= w \/ dy >= h)

\* the inner loop, for kx in 0..kernel.width, of row ky of the kernel
RECURSIVE TapRowSum(_, _, _, _, _, _, _, _, _)
TapRowSum(gcells, w, h, k, x, y, ch, ky, kx) ==
    IF kx = k.width THEN Zero
    ELSE LET kc == center(k)
             dx == x + kx - kc.x
             dy == y + ky - kc.y
             rest == TapRowSum(gcells, w, h, k, x, y, ch, ky, kx + 1)
         IN  IF TapInside(w, h, k, x, y, kx, ky)
             THEN RAdd(RMul(get(gcells, w, dx, dy).color[ch], weight(k, kx, ky)), rest)
             ELSE rest

\* the outer loop, for ky in 0..kernel.height: what new_color.<ch> holds
\* after the tap loop of pixel (x, y)
RECURSIVE TapSum(_, _, _, _, _, _, _, _)
TapSum(gcells, w, h, k, x, y, ch, ky) ==
    IF ky = k.height THEN Zero
    ELSE RAdd(TapRowSum(gcells, w, h, k, x, y, ch, ky, 0),
              TapSum(gcells, w, h, k, x, y, ch, ky + 1))

\* ------------------------------------------------------------------------
\* Grid::convolve (direct): per pixel, new_color starts as RGBA{0,0,0,0};
\* the tap loop adds to r, g and b only, and nothing is clamped.
\* ------------------------------------------------------------------------
convolve_pixel(gcells, w, h, k, x, y) ==
    RGBA(TapSum(gcells, w, h, k, x, y, "r", 0),
         TapSum(gcells, w, h, k, x, y, "g", 0),
         TapSum(gcells, w, h, k, x, y, "b", 0),
         Zero)

\* new_cells = self.cells.clone(); new_cells[index(x, y)].color = new_color
\* for y in 0..height, x in 0..width; self.cells = new_cells
convolve(gcells, w, h, k) ==
    [i \in DOMAIN gcells |->
        IF i - 1 < w * h
        THEN Cell(convolve_pixel(gcells, w, h, k, (i - 1) % w, (i - 1) \div w))
        ELSE gcells[i]]

\* ------------------------------------------------------------------------
\* Grid::convolve_par: the closure of fold for one index of 0..width*height
\* ------------------------------------------------------------------------
convolve_par_pixel(gcells, w, h, k, idx) ==
    LET y == idx \div w
        x == idx % w
    IN  RGBA(clamp01(TapSum(gcells, w, h, k, x, y, "r", 0)),
             clamp01(TapSum(gcells, w, h, k, x, y, "g", 0)),
             clamp01(TapSum(gcells, w, h, k, x, y, "b", 0)),
             clamp01(TapSum(gcells, w, h, k, x, y, "a", 0)))

\* the map a fold over the whole range returns, written back into the cells
convolve_par(gcells, w, h, k) ==
    [i \in DOMAIN gcells |->
        IF i - 1 < w * h
        THEN Cell(convolve_par_pixel(gcells, w, h, k, i - 1))
        ELSE gcells[i]]

\* the mutant of padded: the buffers are as large as the grid, without padding
padded_Unpadded(g, k) == g

\* ------------------------------------------------------------------------
\* Grid::convolve_fft
\* ------------------------------------------------------------------------
\* padded_width = grid_width + kernel_width - 1 (and the same for heights)
padded(g, k) == g + k - 1

\* grid_r / grid_g / grid_b / grid_a after the preparation loop: zeros, with
\* the channel of cell (x, y) at y * padded_width + x
grid_buffer(gcells, gw, gh, pw, ph, ch) ==
    [i \in 0 .. (pw * ph - 1) |->
        IF (i % pw) < gw /\ (i \div pw) < gh
        THEN get(gcells, gw, i % pw, i \div pw).color[ch]
        ELSE Zero]

\* kernel_complex after the preparation loop
kernel_buffer(k, pw, ph) ==
    [i \in 0 .. (pw * ph - 1) |->
        IF (i % pw) < k.width /\ (i \div pw) < k.height
        THEN weight(k, i % pw, i \div pw)
        ELSE Zero]

\* fft.process on both buffers, the element-wise product and ifft.process:
\* rustfft does not normalise, so element n of the result is len times the
\* circular convolution of the two length-len buffers,
\*   len * SUM_m kbuf[m] * buf[(n - m) mod len],  m in 0..len-1.
\* The sum over lo..hi is taken by halves; terms whose kernel sample is zero
\* add nothing.
RECURSIVE CircularSum(_, _, _, _, _, _)
CircularSum(buf, kbuf, len, n, lo, hi) ==
    IF lo = hi
    THEN (IF kbuf[lo] = Zero THEN Zero ELSE RMul(kbuf[lo], buf[(n - lo) % len]))
    ELSE LET mid == (lo + hi) \div 2
         IN  RAdd(CircularSum(buf, kbuf, len, n, lo, mid),
                  CircularSum(buf, kbuf, len, n, mid + 1, hi))

fft_mul_ifft(buf, kbuf, len, n) ==
    RMul(<<len, 1>>, CircularSum(buf, kbuf, len, n, 0, len - 1))

\* the mutant of fft_read_index: the result is read without re-centring
fft_read_index_NoCenter(x, y, kc, pw) == y * pw + x

\* dx = x + kernel_center.x; dy = y + kernel_center.y;
\* index = dy * padded_width + dx
fft_read_index(x, y, kc, pw) ==
    LET dx == x + kc.x
        dy == y + kc.y
    IN  dy * pw + dx

convolve_fft_pixel(gcells, gw, gh, k, x, y) ==
    LET pw == padded(gw, k.width)
        ph == padded(gh, k.height)
        kbuf == kernel_buffer(k, pw, ph)
        idx == fft_read_index(x, y, center(k), pw)
        value(ch) == RDivInt(fft_mul_ifft(grid_buffer(gcells, gw, gh, pw, ph, ch),
                                          kbuf, pw * ph, idx), pw * ph)
    IN  RGBA(clamp01(value("r")), clamp01(value("g")),
             clamp01(value("b")), clamp01(value("a")))

convolve_fft(gcells, gw, gh, k) ==
    [i \in DOMAIN gcells |->
        IF i - 1 < gw * gh
        THEN Cell(convolve_fft_pixel(gcells, gw, gh, k, (i - 1) % gw, (i - 1) \div gw))
        ELSE gcells[i]]

\* ------------------------------------------------------------------------
\* src/src/rgba.rs: the trait-based convolvers over Grid<RGBA>.  A cell of
\* Grid<RGBA> is the colour itself; the model keeps the Cell wrapper of
\* grid.rs around it so that both generations share one grid.
\* ------------------------------------------------------------------------
\* convolve_kernel!(grid, kernel, x, y, new_cell): the macro is not among the
\* sources; it is taken from the description of for_each_in_kernel and of
\* the direct convolver (every in-range tap adds channel * weight to each of
\* r, g, b and a; out-of-range taps are skipped).
convolve_kernel(gcells, w, h, k, x, y) ==
    RGBA(TapSum(gcells, w, h, k, x, y, "r", 0),
         TapSum(gcells, w, h, k, x, y, "g", 0),
         TapSum(gcells, w, h, k, x, y, "b", 0),
         TapSum(gcells, w, h, k, x, y, "a", 0))

\* the mutant of zero_cells: the buffer is sized width * width
zero_cells_Square(w, h) == [i \in 1 .. (w * w) |-> Cell(RGBA(Zero, Zero, Zero, Zero))]

\* vec![RGBA::ZERO; width * height]
zero_cells(w, h) == [i \in 1 .. (w * h) |-> Cell(RGBA(Zero, Zero, Zero, Zero))]

\* SimpleConvolver::convolve: new_cells[index(x, y)] = new_cell, unclamped
SimpleConvolver_convolve(gcells, w, h, k) ==
    [i \in DOMAIN zero_cells(w, h) |->
        Cell(convolve_kernel(gcells, w, h, k, (i - 1) % w, (i - 1) \div w))]

\* ParConvolver::convolve: the value stored in row[x] of chunk y
ParConvolver_pixel(gcells, w, h, k, x, y) ==
    LET new_cell == convolve_kernel(gcells, w, h, k, x, y)
    IN  RGBA(clamp01(new_cell.r), clamp01(new_cell.g),
             clamp01(new_cell.b), clamp01(new_cell.a))

\* ParConvolver::convolve as its caller sees it: every row[x] of every chunk
\* stored into new_cells, and new_cells moved into the grid
ParConvolver_convolve(gcells, w, h, k) ==
    [i \in DOMAIN zero_cells(w, h) |->
        Cell(ParConvolver_pixel(gcells, w, h, k, (i - 1) % w, (i - 1) \div w))]

\* FftConvolver::convolve: the same pipeline as Grid::convolve_fft, written
\* back through for_each_cell_mut
FftConvolver_convolve(gcells, gw, gh, k) ==
    [i \in DOMAIN gcells |->
        Cell(convolve_fft_pixel(gcells, gw, gh, k, (i - 1) % gw, (i - 1) \div gw))]

\* ------------------------------------------------------------------------
\* Inputs: grids and kernels the callers hand to the convolvers
\* ------------------------------------------------------------------------
Half == <<1, 2>>


ColorA == RGBA(One, Zero, Half, One)

ColorB == RGBA(Zero, Half, One, Half)

Palette == { ColorA, ColorB }

\* the grids of a raster: one colour everywhere, or one cell of ColorA on a
\* background of ColorB
Grids(w, h) ==
    { [i \in 1 .. (w * h) |-> Cell(c)] : c \in Palette }
    \cup { [i \in 1 .. (w * h) |-> IF i = p THEN Cell(ColorA) ELSE Cell(ColorB)] :
             p \in 1 .. (w * h) }

GridSizes == { <<1, 1>>, <<2, 1>>, <<2, 2>> }

\* 1x1 kernel of weight 1.0
identity1 == Kernel(1, 1, Weights(<< <<1>> >>, 1))

\* 3x1 kernel with a negative weight, whose weights sum to 2 and which is
\* not symmetric under a rotation by 180 degrees
edge3 == Kernel(3, 1, Weights(<< <<-1, 0, 3>> >>, 1))

Kernels == { identity1, edge3, gauss3 }

\* the preset kernels of Kernel
Presets == { gauss3, gauss5, gauss7 }

\* 3x3 box-average kernel, all weights 1/9
box3 ==
    Kernel(3, 3, Weights(<< <<1, 1, 1>>,
                            <<1, 1, 1>>,
                            <<1, 1, 1>> >>, 9))

\* the 3x3 grid of the golden scenario: (1,0,0,1), (0,1,0,1), (0,0,1,1),
\* (1,1,0,1), (0,1,1,1), (1,0,1,1), (1,1,1,1), (0,0,0,1), (.5,.5,.5,1)
ScenarioGrid ==
    << Cell(RGBA(One, Zero, Zero, One)), Cell(RGBA(Zero, One, Zero, One)),
       Cell(RGBA(Zero, Zero, One, One)), Cell(RGBA(One, One, Zero, One)),
       Cell(RGBA(Zero, One, One, One)), Cell(RGBA(One, Zero, One, One)),
       Cell(RGBA(One, One, One, One)), Cell(RGBA(Zero, Zero, Zero, One)),
       Cell(RGBA(Half, Half, Half, One)) >>

\* rasters with pixels whose whole kernel footprint is inside them
WideSizes == { <<3, 3>>, <<5, 5>> }

WideGrids(w, h) ==
    Grids(w, h) \cup (IF w * h = Len(ScenarioGrid) THEN {ScenarioGrid} ELSE {})

WideKernels == Presets \cup { identity1, edge3, box3 }

\* ------------------------------------------------------------------------
\* State
\* ------------------------------------------------------------------------
VARIABLES
    width,      \* Grid.width
    height,     \* Grid.height
    cells,      \* Grid.cells
    kernel,     \* the kernel of the call in progress, or of the last call
    strategy,   \* the convolver of the call in progress, or of the last call
    pc,         \* "idle", or the parallel pass in progress
    pre,        \* Grid.cells when the call in progress (or the last) began
    calls,      \* number of convolve calls begun
    cuts,       \* boundaries of the pieces the parallel iterator was split into
    pos,        \* per piece, the next step of its sequential loop
    accs,       \* convolve_par: per piece, the HashMap its fold has built
    alive,      \* convolve_par: the pieces whose map is not merged away yet
    new_cells,  \* ParConvolver: the output buffer the chunks are slices of
    writes,     \* per output index, the pieces that have written it
    result      \* what the last get, get_mut or FFT planning gave its caller

vars == <<width, height, cells, kernel, strategy, pc, pre, calls,
          cuts, pos, accs, alive, new_cells, writes, result>>

par_vars == <<cuts, pos, accs, alive, new_cells, writes>>

NoMap == [i \in {} |-> 0]

\* nothing has been returned yet
NoResult == [op |-> "none"]

\* ------------------------------------------------------------------------
\* Helpers of the model
\* ------------------------------------------------------------------------
RECURSIVE SortedSeq(_)
SortedSeq(S) ==
    IF S = {} THEN <<>>
    ELSE LET m == CHOOSE e \in S : \A f \in S : e <= f
         IN  <<m>> \o SortedSeq(S \ {m})

\* the ways an indexed parallel iterator of n items is split into at most
\* m contiguous, non-empty pieces: <<0, c2, ..., n>>, increasing
SplitsInto(n, m) ==
    { SortedSeq({0, n} \cup S) :
        S \in { T \in SUBSET (1 .. (n - 1)) : Cardinality(T) < m } }

\* the splits into at most NumPieces pieces
Splits(n) == SplitsInto(n, NumPieces)

Init ==
    /\ \E size \in GridSizes :
          /\ width = size[1]
          /\ height = size[2]
          /\ cells \in Grids(size[1], size[2])
    /\ kernel = identity1
    /\ strategy = "none"
    /\ pc = "idle"
    /\ pre = cells
    /\ calls = 0
    /\ cuts = <<>>
    /\ pos = <<>>
    /\ accs = <<>>
    /\ alive = {}
    /\ new_cells = <<>>
    /\ writes = NoMap
    /\ result = NoResult

\* a call that runs to completion on the caller's thread
Call(strat, k, out) ==
    /\ pc = "idle"
    /\ calls < MaxCalls
    /\ cells' = out
    /\ kernel' = k
    /\ strategy' = strat
    /\ pre' = cells
    /\ calls' = calls + 1
    /\ cuts' = <<>>
    /\ pos' = <<>>
    /\ accs' = <<>>
    /\ alive' = {}
    /\ new_cells' = <<>>
    /\ writes' = NoMap
    /\ UNCHANGED <<result, width, height, pc>>

\* Grid::convolve
Convolve(k) == Call("direct", k, convolve(cells, width, height, k))

\* Grid::convolve_fft
ConvolveFft(k) == Call("fft", k, convolve_fft(cells, width, height, k))

\* SimpleConvolver::convolve
SimpleConvolve(k) == Call("simple", k, SimpleConvolver_convolve(cells, width, height, k))

\* FftConvolver::convolve
FftConvolve(k) == Call("fftconv", k, FftConvolver_convolve(cells, width, height, k))

\* ------------------------------------------------------------------------
\* Grid::convolve_par.  (0..width*height).into_par_iter() is split by rayon
\* into contiguous pieces; fold runs the closure over each piece in order,
\* into a HashMap of the piece's own; reduce merges the maps of neighbouring
\* pieces; the loop after the reduce writes the merged map into self.cells.
\* ------------------------------------------------------------------------
\* acc.insert(index, cell)
Insert(map, key, value) ==
    [i \in (DOMAIN map) \cup {key} |-> IF i = key THEN value ELSE map[i]]

\* acc.extend(map)
Extend(acc, map) ==
    [i \in (DOMAIN acc) \cup (DOMAIN map) |->
        IF i \in DOMAIN map THEN map[i] ELSE acc[i]]

\* the record of which piece produced which output index
Log(w, idx, j) ==
    [i \in (DOMAIN w) \cup {idx} |->
        IF i = idx
        THEN (IF idx \in DOMAIN w THEN Append(w[idx], j) ELSE <<j>>)
        ELSE w[i]]

Pieces == 1 .. (Len(cuts) - 1)

\* let result = (0..self.width * self.height).into_par_iter().fold(...)
ConvolveParForkAt(k, c) ==
    /\ pc = "idle"
    /\ calls < MaxCalls
    /\ cuts' = c
    /\ pos' = [j \in 1 .. (Len(c) - 1) |-> c[j]]
    /\ accs' = [j \in 1 .. (Len(c) - 1) |-> NoMap]
    /\ alive' = 1 .. (Len(c) - 1)
    /\ new_cells' = <<>>
    /\ writes' = NoMap
    /\ kernel' = k
    /\ strategy' = "par"
    /\ pre' = cells
    /\ calls' = calls + 1
    /\ pc' = "fold"
    /\ UNCHANGED <<result, width, height, cells>>

\* the fold, split by rayon into at most NumPieces pieces
ConvolveParFork(k) ==
    \E c \in Splits(width * height) : ConvolveParForkAt(k, c)

\* the mutant of FoldStep: the closure also stores the pixel into self.cells
FoldStep_InPlace(j) ==
    /\ pc = "fold"
    /\ j \in Pieces
    /\ pos[j] < cuts[j + 1]
    /\ LET idx == pos[j]
           cell == Cell(convolve_par_pixel(cells, width, height, kernel, idx))
       IN  /\ accs' = [accs EXCEPT ![j] = Insert(@, idx, cell)]
           /\ writes' = Log(writes, idx, j)
           /\ pos' = [pos EXCEPT ![j] = idx + 1]
           /\ cells' = [cells EXCEPT ![idx + 1] = cell]
    /\ UNCHANGED <<result, width, height, kernel, strategy, pc, pre, calls,
                   cuts, alive, new_cells>>

\* one run of the fold closure: piece j handles its next index, reading the
\* cells of self through self.get
FoldStep(j) ==
    /\ pc = "fold"
    /\ j \in Pieces
    /\ pos[j] < cuts[j + 1]
    /\ LET idx == pos[j]
           cell == Cell(convolve_par_pixel(cells, width, height, kernel, idx))
       IN  /\ accs' = [accs EXCEPT ![j] = Insert(@, idx, cell)]
           /\ writes' = Log(writes, idx, j)
           /\ pos' = [pos EXCEPT ![j] = idx + 1]
    /\ UNCHANGED <<result, width, height, cells, kernel, strategy, pc, pre, calls,
                   cuts, alive, new_cells>>

FoldDone(j) == pos[j] = cuts[j + 1]

\* one run of the reduce closure: the map of the next piece still alive is
\* merged into the map of piece j, once both folds have returned
Reduce(j) ==
    /\ pc = "fold"
    /\ j \in alive
    /\ \E n \in alive :
          /\ j < n
          /\ \A m \in alive : ~(j < m /\ m < n)
          /\ FoldDone(j)
          /\ FoldDone(n)
          /\ accs' = [accs EXCEPT ![j] = Extend(accs[j], accs[n]), ![n] = NoMap]
          /\ alive' = alive \ {n}
    /\ UNCHANGED <<result, width, height, cells, kernel, strategy, pc, pre, calls,
                   cuts, pos, new_cells, writes>>

\* for (index, cell) in result { self.cells[index] = cell; }
WriteBack ==
    /\ pc = "fold"
    /\ alive = {1}
    /\ FoldDone(1)
    /\ cells' = [i \in DOMAIN cells |->
                    IF (i - 1) \in DOMAIN accs[1] THEN accs[1][i - 1] ELSE cells[i]]
    /\ pc' = "idle"
    /\ UNCHANGED <<result, width, height, kernel, strategy, pre, calls,
                   cuts, pos, accs, alive, new_cells, writes>>

\* ------------------------------------------------------------------------
\* ParConvolver::convolve.  new_cells.par_chunks_mut(width).enumerate() is
\* split by rayon into contiguous pieces of chunks; for_each runs the
\* closure on each chunk (y, row) of a piece in order, and the closure loops
\* for x in 0..width.  A step p of a piece is chunk p / width, column
\* p % width.
\* ------------------------------------------------------------------------
\* the argument of par_chunks_mut
chunk_size_Transposed(w, h) == h

chunk_size(w, h) == w

\* number of chunks of a slice of n elements
chunk_count(n, size) == (n + size - 1) \div size

ParChunksForkAt(k, c) ==
    /\ pc = "idle"
    /\ calls < MaxCalls
    /\ new_cells' = zero_cells(width, height)
    /\ cuts' = c
    /\ pos' = [j \in 1 .. (Len(c) - 1) |-> c[j] * width]
    /\ accs' = <<>>
    /\ alive' = {}
    /\ writes' = NoMap
    /\ kernel' = k
    /\ strategy' = "parchunks"
    /\ pre' = cells
    /\ calls' = calls + 1
    /\ pc' = "chunks"
    /\ UNCHANGED <<result, width, height, cells>>

\* the chunks, split by rayon into at most NumPieces pieces
ParChunksFork(k) ==
    \E c \in Splits(chunk_count(width * height, chunk_size(width, height))) :
        ParChunksForkAt(k, c)

ChunksDone(j) == pos[j] = cuts[j + 1] * width

\* row[x] = RGBA { ... } in chunk y
ChunkStep(j) ==
    /\ pc = "chunks"
    /\ j \in Pieces
    /\ ~ChunksDone(j)
    /\ LET y == pos[j] \div width
           x == pos[j] % width
           target == y * chunk_size(width, height) + x
           cell == Cell(ParConvolver_pixel(cells, width, height, kernel, x, y))
       IN  /\ new_cells' = IF (target + 1) \in DOMAIN new_cells
                           THEN [new_cells EXCEPT ![target + 1] = cell]
                           ELSE new_cells
           /\ writes' = Log(writes, target, j)
           /\ pos' = [pos EXCEPT ![j] = @ + 1]
    /\ UNCHANGED <<result, width, height, cells, kernel, strategy, pc, pre, calls,
                   cuts, accs, alive>>

\* the mutant of AllChunksDone: for_each returns when one piece is done
AllChunksDone_Any == \E j \in Pieces : ChunksDone(j)

\* for_each returns when every piece has been run
AllChunksDone == \A j \in Pieces : ChunksDone(j)

\* grid.cells = new_cells
ChunksJoin ==
    /\ pc = "chunks"
    /\ AllChunksDone
    /\ cells' = new_cells
    /\ pc' = "idle"
    /\ UNCHANGED <<result, width, height, kernel, strategy, pre, calls,
                   cuts, pos, accs, alive, new_cells, writes>>

\* ------------------------------------------------------------------------
\* Specification
\* ------------------------------------------------------------------------
Next ==
    \/ \E k \in Kernels : Convolve(k)
    \/ \E k \in Kernels : ConvolveFft(k)
    \/ \E k \in Kernels : SimpleConvolve(k)
    \/ \E k \in Kernels : FftConvolve(k)
    \/ \E k \in Kernels : ConvolveParFork(k)
    \/ \E j \in 1 .. NumPieces : FoldStep(j)
    \/ \E j \in 1 .. NumPieces : Reduce(j)
    \/ WriteBack
    \/ \E k \in Kernels : ParChunksFork(k)
    \/ \E j \in 1 .. NumPieces : ChunkStep(j)
    \/ ChunksJoin

Spec == Init /\ [][Next]_vars

\* ------------------------------------------------------------------------
\* The parallel convolvers alone, split into up to MergePieces pieces, so
\* that the reduce of Grid::convolve_par has more than one merge to make and
\* more than one order to make them in: the left pair first, or the right
\* pair first.
\* ------------------------------------------------------------------------
MergePieces == 3

\* rasters of at least MergePieces cells, one of them of MergePieces rows
MergeSizes == { <<2, 2>>, <<1, 3>> }

InitMerge ==
    /\ \E size \in MergeSizes :
          /\ width = size[1]
          /\ height = size[2]
          /\ cells \in Grids(size[1], size[2])
    /\ kernel = identity1
    /\ strategy = "none"
    /\ pc = "idle"
    /\ pre = cells
    /\ calls = 0
    /\ cuts = <<>>
    /\ pos = <<>>
    /\ accs = <<>>
    /\ alive = {}
    /\ new_cells = <<>>
    /\ writes = NoMap
    /\ result = NoResult

NextMerge ==
    \/ \E k \in Kernels : \E c \in SplitsInto(width * height, MergePieces) :
          ConvolveParForkAt(k, c)
    \/ \E j \in 1 .. MergePieces : FoldStep(j)
    \/ \E j \in 1 .. MergePieces : Reduce(j)
    \/ WriteBack
    \/ \E k \in Kernels :
          \E c \in SplitsInto(chunk_count(width * height, chunk_size(width, height)),
                              MergePieces) :
              ParChunksForkAt(k, c)
    \/ \E j \in 1 .. MergePieces : ChunkStep(j)
    \/ ChunksJoin

SpecMerge == InitMerge /\ [][NextMerge]_vars

\* ------------------------------------------------------------------------
\* One call on a larger raster, any kernel, any convolver.  A sequential
\* convolver runs on the caller's thread from call to return; a parallel
\* convolver forks, its workers take their steps in any order, and the
\* caller resumes at the join.
\* ------------------------------------------------------------------------
InitWide ==
    /\ \E size \in WideSizes :
          /\ width = size[1]
          /\ height = size[2]
          /\ cells \in WideGrids(size[1], size[2])
    /\ kernel = identity1
    /\ strategy = "none"
    /\ pc = "idle"
    /\ pre = cells
    /\ calls = 0
    /\ cuts = <<>>
    /\ pos = <<>>
    /\ accs = <<>>
    /\ alive = {}
    /\ new_cells = <<>>
    /\ writes = NoMap
    /\ result = NoResult

\* the grids on which all six convolvers are followed, the parallel ones
\* worker step by worker step: one colour everywhere, one cell of ColorA in
\* the middle of ColorB, and the golden scenario
ParGrids(w, h) ==
    { [i \in 1 .. (w * h) |-> Cell(ColorA)],
      [i \in 1 .. (w * h) |->
          IF i = index(w, w \div 2, h \div 2) + 1 THEN Cell(ColorA) ELSE Cell(ColorB)] }
    \cup (IF w * h = Len(ScenarioGrid) THEN {ScenarioGrid} ELSE {})

InitPar ==
    /\ \E size \in WideSizes :
          /\ width = size[1]
          /\ height = size[2]
          /\ cells \in ParGrids(size[1], size[2])
    /\ kernel = identity1
    /\ strategy = "none"
    /\ pc = "idle"
    /\ pre = cells
    /\ calls = 0
    /\ cuts = <<>>
    /\ pos = <<>>
    /\ accs = <<>>
    /\ alive = {}
    /\ new_cells = <<>>
    /\ writes = NoMap
    /\ result = NoResult

NextWide ==
    \/ \E k \in WideKernels : calls = 0 /\ Convolve(k)
    \/ \E k \in WideKernels : calls = 0 /\ ConvolveFft(k)
    \/ \E k \in WideKernels : calls = 0 /\ SimpleConvolve(k)
    \/ \E k \in WideKernels : calls = 0 /\ FftConvolve(k)
    \/ \E k \in WideKernels : calls = 0 /\ ConvolveParFork(k)
    \/ \E j \in 1 .. NumPieces : FoldStep(j)
    \/ \E j \in 1 .. NumPieces : Reduce(j)
    \/ WriteBack
    \/ \E k \in WideKernels : calls = 0 /\ ParChunksFork(k)
    \/ \E j \in 1 .. NumPieces : ChunkStep(j)
    \/ ChunksJoin

SpecWide == InitPar /\ [][NextWide]_vars

\* One call on a larger raster of a convolver that runs on the caller's
\* thread from call to return
NextSeq ==
    \/ \E k \in WideKernels : calls = 0 /\ Convolve(k)
    \/ \E k \in WideKernels : calls = 0 /\ ConvolveFft(k)
    \/ \E k \in WideKernels : calls = 0 /\ SimpleConvolve(k)
    \/ \E k \in WideKernels : calls = 0 /\ FftConvolve(k)

SpecSeq == InitWide /\ [][NextSeq]_vars

\* ------------------------------------------------------------------------
\* Vocabulary of the properties
\* ------------------------------------------------------------------------
Returned == pc = "idle" /\ strategy # "none"

\* channel-wise agreement of two cell vectors within 1 / inv
Agree(a, b, inv) ==
    /\ DOMAIN a = DOMAIN b
    /\ \A i \in DOMAIN a : \A ch \in Channels :
          Within(a[i].color[ch], b[i].color[ch], inv)

AllInUnit(gcells) ==
    \A i \in DOMAIN gcells : \A ch \in Channels : InUnit(gcells[i].color[ch])

\* pixel (x, y) is more than the kernel's radius away from every edge
Interior(k, x, y) ==
    LET kc == center(k)
    IN  /\ kc.x < x /\ x < width - 1 - kc.x
        /\ kc.y < y /\ y < height - 1 - kc.y

PixelX(i) == (i - 1) % width

PixelY(i) == (i - 1) \div width

\* agreement within 1 / inv on the pixels selected by keep
AgreeOn(a, b, inv, keep(_)) ==
    \A i \in DOMAIN a :
        keep(i) => \A ch \in Channels : Within(a[i].color[ch], b[i].color[ch], inv)

\* the sum, over the taps (kx, ky) of k whose source (x+kx-kc.x, y+ky-kc.y)
\* is inside the raster, of the source's channel times the tap's weight,
\* taken over the taps lo..hi numbered row by row
RECURSIVE InBoundsSum(_, _, _, _, _, _, _)
InBoundsSum(gcells, k, x, y, ch, lo, hi) ==
    IF lo = hi
    THEN LET kx == lo % k.width
             ky == lo \div k.width
             sx == x + kx - (k.width \div 2)
             sy == y + ky - (k.height \div 2)
         IN  IF 0 <= sx /\ sx < width /\ 0 <= sy /\ sy < height
             THEN RMul(gcells[sy * width + sx + 1].color[ch], k.cells[ky + 1][kx + 1])
             ELSE Zero
    ELSE LET mid == (lo + hi) \div 2
         IN  RAdd(InBoundsSum(gcells, k, x, y, ch, lo, mid),
                  InBoundsSum(gcells, k, x, y, ch, mid + 1, hi))

ExpectedSum(gcells, k, i, ch) ==
    InBoundsSum(gcells, k, PixelX(i), PixelY(i), ch, 0, k.width * k.height - 1)

\* a piece of the parallel pass still has steps to run
WorkersRunning ==
    \/ pc = "fold" /\ \E j \in Pieces : ~FoldDone(j)
    \/ pc = "chunks" /\ \E j \in Pieces : ~ChunksDone(j)

\* the output indices of piece j: its sub-range of 0..width*height, or the
\* slices of its chunks
Owns(j, idx) ==
    IF strategy = "par"
    THEN cuts[j] <= idx /\ idx < cuts[j + 1]
    ELSE LET size == chunk_size(width, height)
         IN  /\ cuts[j] * size <= idx
             /\ idx < cuts[j + 1] * size
             /\ idx < Len(new_cells)

\* ------------------------------------------------------------------------
\* C1.  The direct and the parallel convolver produce the same output
\* (every channel of every pixel within 1e-5) for the same grid and kernel:
\* when a parallel call has returned, the grid holds what the direct
\* convolver of the same generation returns for the grid and kernel the call
\* began with.
\* ------------------------------------------------------------------------
C1_DirectEqualsParallel ==
    /\ (Returned /\ strategy = "par")
          => Agree(cells, convolve(pre, width, height, kernel), 100000)
    /\ (Returned /\ strategy = "parchunks")
          => Agree(cells, SimpleConvolver_convolve(pre, width, height, kernel), 100000)

\* ------------------------------------------------------------------------
\* C2.  After any sequence of convolve calls with any strategy and any
\* kernel weights, every channel of every cell lies in [0, 1].
\* ------------------------------------------------------------------------
C2_ChannelsInUnitRange == Returned => AllInUnit(cells)

\* ------------------------------------------------------------------------
\* C3.  Through any sequence of convolve calls with any mix of strategies
\* the width and the height of the grid never change, and in every state
\* cells.len() = width * height.
\* ------------------------------------------------------------------------
C3_DimensionsPreserved ==
    /\ [](Len(cells) = width * height)
    /\ [][width' = width /\ height' = height]_vars

\* two calls of different kinds have returned on a grid that is not square
C3_Witness ==
    /\ Returned
    /\ calls = 2
    /\ width # height
    /\ strategy = "simple"
    /\ cells # pre

\* ------------------------------------------------------------------------
\* C4.  In the parallel convolvers every output index is written at most
\* once, by the piece that owns it, it lies in 0..width*height, and when the
\* call has returned every index of 0..width*height has been written exactly
\* once.
\* ------------------------------------------------------------------------
C4_EachPixelWrittenOnceByOwner ==
    strategy \in {"par", "parchunks"} =>
        /\ \A idx \in DOMAIN writes :
              /\ Len(writes[idx]) = 1
              /\ 0 <= idx /\ idx < width * height
              /\ writes[idx][1] \in Pieces
              /\ Owns(writes[idx][1], idx)
        /\ Returned => DOMAIN writes = 0 .. (width * height - 1)

\* a pass over two rows of two pixels, split into two pieces, has returned
C4_Witness ==
    /\ Returned
    /\ strategy = "parchunks"
    /\ width = 2 /\ height = 2
    /\ Len(cuts) = 3
    /\ {writes[idx][1] : idx \in DOMAIN writes} = {1, 2}

\* ------------------------------------------------------------------------
\* C5.  The result of a parallel call does not depend on how the work was
\* split, on the order in which the pieces ran, or on the order of the
\* merges: whenever the call has returned, the grid is the one function of
\* the input grid and the kernel that a single sequential pass computes.
\* ------------------------------------------------------------------------
C5_OrderIndependent ==
    /\ (Returned /\ strategy = "par")
          => cells = convolve_par(pre, width, height, kernel)
    /\ (Returned /\ strategy = "parchunks")
          => cells = ParConvolver_convolve(pre, width, height, kernel)

\* a fold split in three pieces has returned and changed the grid; its
\* three maps were merged in one of the two orders
C5_Witness ==
    /\ Returned
    /\ strategy = "par"
    /\ Len(cuts) = 4
    /\ alive = {1}
    /\ DOMAIN accs[1] = 0 .. (width * height - 1)
    /\ cells # pre

\* ------------------------------------------------------------------------
\* C6.  While any piece of a parallel pass is still running the cells of
\* the grid are not modified, so the new values appear only in a step taken
\* when every piece has finished.
\* ------------------------------------------------------------------------
C6_InputImmutableUntilJoin ==
    [][WorkersRunning => cells' = cells]_vars

\* one piece has finished and written its output while another is running
C6_Witness ==
    /\ pc = "chunks"
    /\ \E j \in Pieces : ChunksDone(j)
    /\ \E j \in Pieces : ~ChunksDone(j)
    /\ new_cells # zero_cells(width, height)
    /\ cells = pre

\* ------------------------------------------------------------------------
\* C10.  Convolving a grid whose channels are in [0, 1] with the 1x1 kernel
\* of weight 1.0 returns the input unchanged on r, g, b and a, whichever
\* convolver is used.
\* ------------------------------------------------------------------------
C10_IdentityKernel ==
    (Returned /\ kernel = identity1 /\ AllInUnit(pre)) => cells = pre

\* ------------------------------------------------------------------------
\* C7.  For any grid and any odd-sized kernel the output of the FFT
\* convolver and the output of the direct convolver agree within 1e-3 on
\* every channel of every pixel that is more than the kernel's radius away
\* from every edge.
\* ------------------------------------------------------------------------
C7_FftEqualsDirectInterior ==
    LET inner(i) == Interior(kernel, PixelX(i), PixelY(i))
    IN  /\ (Returned /\ strategy = "fft")
              => AgreeOn(cells, convolve(pre, width, height, kernel), 1000, inner)
        /\ (Returned /\ strategy = "fftconv")
              => AgreeOn(cells, SimpleConvolver_convolve(pre, width, height, kernel),
                         1000, inner)

\* ------------------------------------------------------------------------
\* C8 as amended.  For the preset Gaussian kernels zero padding and tap
\* skipping give the same sums: the output of the FFT convolver agrees with
\* the output of the parallel convolver within 1e-3 on every channel of
\* every pixel, the pixels within the kernel's radius of an edge included.
\* ------------------------------------------------------------------------
C8_FftEqualsParEverywhere ==
    (Returned /\ strategy \in {"fft", "fftconv"} /\ kernel \in Presets)
        => Agree(cells, convolve_par(pre, width, height, kernel), 1000)

\* the FFT convolver has blurred a 5x5 grid of one colour with gauss3: the
\* corner is darker than it was, the centre pixel is unchanged
C8_Witness ==
    /\ Returned
    /\ strategy = "fft"
    /\ kernel = gauss3
    /\ width = 5 /\ height = 5
    /\ Interior(kernel, 2, 2)
    /\ ~Interior(kernel, 0, 0)
    /\ cells[1] # pre[1]
    /\ cells[13] = pre[13]

\* C8 as stated.  There are a grid and a preset Gaussian kernel for which
\* the output of the FFT convolver and the output of the parallel convolver
\* differ (by more than 1e-3) at a pixel within the kernel's radius of an
\* edge, while they agree at every pixel further inside.  The grids are
\* those of the raster the FFT convolver has just been called on.
C8_BorderDiverges ==
    (Returned /\ strategy = "fft" /\ kernel \in Presets) =>
        \E g \in WideGrids(width, height) : \E k \in Presets :
            LET f == convolve_fft(g, width, height, k)
                p == convolve_par(g, width, height, k)
                inner(i) == Interior(k, PixelX(i), PixelY(i))
                border(i) == ~Interior(k, PixelX(i), PixelY(i))
            IN  /\ ~AgreeOn(f, p, 1000, border)
                /\ AgreeOn(f, p, 1000, inner)

\* ------------------------------------------------------------------------
\* C9.  For every output pixel the spatial convolvers compute, per channel,
\* the sum over exactly the kernel taps whose source coordinate lies inside
\* the raster of source channel * weight, out-of-range taps adding nothing
\* and nothing being renormalised (for the parallel convolver: whenever
\* that sum is in [0, 1], so that its clamp changes nothing).  For the 3x3
\* box kernel on the 3x3 golden grid the centre is the average of the nine
\* cells and the first corner is the sum of its four in-bounds cells over 9.
\* ------------------------------------------------------------------------
C9_SumOverInBoundsTaps ==
    /\ (Returned /\ strategy = "direct") =>
          \A i \in DOMAIN cells : \A ch \in Channels :
              cells[i].color[ch] = ExpectedSum(pre, kernel, i, ch)
    /\ (Returned /\ strategy = "par") =>
          \A i \in DOMAIN cells : \A ch \in Channels :
              InUnit(ExpectedSum(pre, kernel, i, ch))
                  => cells[i].color[ch] = ExpectedSum(pre, kernel, i, ch)
    /\ (Returned /\ strategy \in {"direct", "par"}
            /\ kernel = box3 /\ pre = ScenarioGrid) =>
          /\ cells[5].color = RGBA(Half, Half, Half, One)
          /\ cells[1].color = RGBA(<<2, 9>>, <<1, 3>>, <<1, 9>>, <<4, 9>>)

\* ------------------------------------------------------------------------
\* Vocabulary of the fixed-point property
\* ------------------------------------------------------------------------
\* the sum of the weights of k numbered lo..hi row by row
RECURSIVE WeightSum(_, _, _)
WeightSum(k, lo, hi) ==
    IF lo = hi
    THEN k.cells[(lo \div k.width) + 1][(lo % k.width) + 1]
    ELSE LET mid == (lo + hi) \div 2
         IN  RAdd(WeightSum(k, lo, mid), WeightSum(k, mid + 1, hi))

KernelSum(k) == WeightSum(k, 0, k.width * k.height - 1)

NonNegative(k) ==
    \A ky \in 1 .. k.height : \A kx \in 1 .. k.width : RLeq(Zero, k.cells[ky][kx])

Uniform(gcells) == \A i \in DOMAIN gcells : gcells[i] = gcells[1]

\* every tap of k centred on (x, y) has its source inside the raster
FootprintInside(k, x, y) ==
    LET kc == center(k)
    IN  /\ kc.x <= x /\ x + (k.width - 1 - kc.x) <= width - 1
        /\ kc.y <= y /\ y + (k.height - 1 - kc.y) <= height - 1

\* ------------------------------------------------------------------------
\* C11.  For a grid filled with one colour c (channels in [0,1]) and a
\* kernel whose weights sum to 1, the direct and the parallel convolver
\* leave c (within 1e-6, on all four channels) at every pixel whose full
\* kernel footprint lies inside the raster, and for a kernel without
\* negative weights no output channel anywhere is brighter than c.
\* ------------------------------------------------------------------------
C11_UniformFixedPoint ==
    (/\ Returned
     /\ strategy \in {"direct", "par"}
     /\ Uniform(pre) /\ AllInUnit(pre)
     /\ KernelSum(kernel) = One) =>
        \A i \in DOMAIN cells : \A ch \in Channels :
            /\ FootprintInside(kernel, PixelX(i), PixelY(i))
                  => Within(cells[i].color[ch], pre[1].color[ch], 1000000)
            /\ NonNegative(kernel)
                  => RLeq(cells[i].color[ch], pre[1].color[ch])

\* ------------------------------------------------------------------------
\* Cell access: Grid::get and Grid::get_mut, called with any coordinates
\* ------------------------------------------------------------------------
\* how far past the raster the coordinates of an access may lie
Overshoot == 1

\* &self.cells[i]: the slice index is checked against cells.len() only
slice_index(gcells, i) == IF i < Len(gcells) THEN "ok" ELSE "panic"

Access(op, x, y) ==
    LET i == index(width, x, y)
    IN  [y |-> y, x |-> x, op |-> op, at |-> i, status |-> slice_index(cells, i)]

\* Grid::get
Get(x, y) ==
    /\ pc = "idle"
    /\ calls < MaxCalls
    /\ calls' = calls + 1
    /\ result' = Access("get", x, y)
    /\ UNCHANGED <<width, height, cells, kernel, strategy, pc, pre, par_vars>>

\* Grid::get_mut, and the caller storing color through the reference it got
GetMut(x, y, color) ==
    /\ pc = "idle"
    /\ calls < MaxCalls
    /\ calls' = calls + 1
    /\ result' = Access("get_mut", x, y)
    /\ cells' = IF slice_index(cells, index(width, x, y)) = "ok"
                THEN [cells EXCEPT ![index(width, x, y) + 1] = Cell(color)]
                ELSE cells
    /\ UNCHANGED <<width, height, kernel, strategy, pc, pre, par_vars>>

NextAccess ==
    \/ \E x \in 0 .. (width - 1 + Overshoot) : \E y \in 0 .. (height - 1 + Overshoot) :
          Get(x, y)
    \/ \E x \in 0 .. (width - 1 + Overshoot) : \E y \in 0 .. (height - 1 + Overshoot) :
          \E color \in Palette : GetMut(x, y, color)

SpecAccess == Init /\ [][NextAccess]_vars

\* ------------------------------------------------------------------------
\* C12.  get(x, y) and get_mut(x, y) fail loudly for every coordinate with
\* x >= width or y >= height: such an access never returns a cell.
\* ------------------------------------------------------------------------
C12_OutOfRangeAccessFails ==
    (/\ result.op \in {"get", "get_mut"}
     /\ (result.x >= width \/ result.y >= height)) => result.status = "panic"

\* ------------------------------------------------------------------------
\* Kernel construction.  The source has no constructor taking dimensions: a
\* Kernel is built by the struct literal Kernel { width, height, cells },
\* as gauss3, gauss5 and gauss7 do, and is then passed to a convolver.
\* ------------------------------------------------------------------------
\* the largest side of a kernel built from a literal
MaxKernelSide == 3

\* Kernel { width: w, height: h, cells: vec![vec![1.0 / (w * h); w]; h] }
kernel_literal(w, h) ==
    Kernel(w, h, [y \in 1 .. h |-> [x \in 1 .. w |-> Rat(1, w * h)]])

\* the struct literal: the fields are stored as given
NewKernel(k) ==
    /\ pc = "idle"
    /\ result.op = "none"
    /\ calls = 0
    /\ kernel' = k
    /\ result' = [op |-> "kernel", status |-> "ok"]
    /\ UNCHANGED <<width, height, cells, strategy, pc, pre, calls, par_vars>>

\* a convolver of grid.rs called, once, with the kernel that was built; the
\* parallel one forks here and its workers take their steps below
ConvolveWithKernel ==
    /\ result.op = "kernel"
    /\ calls = 0
    /\ \/ Convolve(kernel)
       \/ ConvolveParFork(kernel)
       \/ ConvolveFft(kernel)

NextKernel ==
    \/ \E k \in Presets : NewKernel(k)
    \/ \E w \in 1 .. MaxKernelSide : \E h \in 1 .. MaxKernelSide :
          NewKernel(kernel_literal(w, h))
    \/ ConvolveWithKernel
    \/ \E j \in 1 .. NumPieces : FoldStep(j)
    \/ \E j \in 1 .. NumPieces : Reduce(j)
    \/ WriteBack

SpecKernel == Init /\ [][NextKernel]_vars

\* ------------------------------------------------------------------------
\* C13.  A kernel whose width or height is even is rejected at
\* construction: every kernel that was built, and every kernel that has
\* reached a convolver, has an odd width and an odd height.
\* ------------------------------------------------------------------------
C13_EvenKernelRejected ==
    (result.op = "kernel" /\ result.status = "ok")
        => (kernel.width % 2 = 1 /\ kernel.height % 2 = 1)

\* ------------------------------------------------------------------------
\* The head of Grid::convolve_fft: the padded size and the two plans, for
\* grids and kernels of any dimensions, zero included.  A usize that has
\* wrapped is written as the negative integer it is congruent to modulo
\* 2^64 (usize::MAX is -1).
\* ------------------------------------------------------------------------
\* the largest side of a grid whose transform is planned
MaxSide == 3

\* a - b on usize: when a < b a debug build panics and a release build wraps
usize_sub(a, b, value) ==
    IF a >= b
    THEN { [status |-> "ok", value |-> value] }
    ELSE { [status |-> "panic", value |-> value],
           [status |-> "ok", value |-> value] }

\* a * b on usize: a wrapped factor overflows unless the other is 0 or 1
usize_mul(a, b) ==
    IF (a < 0 /\ b \notin {0, 1}) \/ (b < 0 /\ a \notin {0, 1})
    THEN { [status |-> "panic", value |-> a * b],
           [status |-> "ok", value |-> a * b] }
    ELSE { [status |-> "ok", value |-> a * b] }

\* the outcomes of lines 109-121 for a gw x gh grid and a kw x kh kernel
fft_plan(gw, gh, kw, kh) ==
    { IF pw.status = "ok" /\ ph.status = "ok" /\ len.status = "ok"
      THEN [len |-> len.value, op |-> "fft_plan", status |-> "planned",
            padded_width |-> pw.value, padded_height |-> ph.value]
      ELSE [len |-> 0, op |-> "fft_plan", status |-> "panic",
            padded_width |-> 0, padded_height |-> 0] :
        <<pw, ph, len>> \in
            { t \in usize_sub(gw + kw, 1, padded(gw, kw))
                    \X usize_sub(gh + kh, 1, padded(gh, kh))
                    \X UNION { usize_mul(a.value, b.value) :
                                  <<a, b>> \in usize_sub(gw + kw, 1, padded(gw, kw))
                                           \X usize_sub(gh + kh, 1, padded(gh, kh)) } :
                  t[3].value = t[1].value * t[2].value } }

InitPlan ==
    /\ width \in 0 .. MaxSide
    /\ height \in 0 .. MaxSide
    /\ cells = [i \in 1 .. (width * height) |-> Cell(ColorA)]
    /\ \E kw \in 0 .. MaxKernelSide : \E kh \in 0 .. MaxKernelSide :
          kernel = kernel_literal(kw, kh)
    /\ strategy = "none"
    /\ pc = "idle"
    /\ pre = cells
    /\ calls = 0
    /\ cuts = <<>>
    /\ pos = <<>>
    /\ accs = <<>>
    /\ alive = {}
    /\ new_cells = <<>>
    /\ writes = NoMap
    /\ result = NoResult

\* Grid::convolve_fft up to the plans
FftPlan ==
    /\ result.op = "none"
    /\ result' \in fft_plan(width, height, kernel.width, kernel.height)
    /\ UNCHANGED <<width, height, cells, kernel, strategy, pc, pre, calls, par_vars>>

NextPlan == FftPlan

SpecPlan == InitPlan /\ [][NextPlan]_vars

ZeroDimension ==
    width = 0 \/ height = 0 \/ kernel.width = 0 \/ kernel.height = 0

\* ------------------------------------------------------------------------
\* C14.  A grid or kernel with a zero width or height is rejected before
\* the transforms are planned: with a zero dimension the FFT convolver
\* neither computes a padded size nor requests a plan nor panics in the
\* subtraction; the only outcome is a rejection.
\* ------------------------------------------------------------------------
C14_ZeroDimensionRejected ==
    (result.op = "fft_plan" /\ ZeroDimension) => result.status = "rejected"

\* ------------------------------------------------------------------------
\* C17.  With padded_width = grid_width + kernel_width - 1 and
\* padded_height = grid_height + kernel_height - 1 the flattened circular
\* convolution of length padded_width * padded_height has no wraparound:
\* the product of the grid sample at (x, y) and the kernel sample at
\* (kx, ky) lands at flat index (y + ky) * padded_width + (x + kx), in row
\* y + ky and column x + kx, without carry into the next row and without
\* wrapping past the end, and every index read back for an output pixel is
\* inside the padded buffer.
\* ------------------------------------------------------------------------
C17_NoWraparound ==
    (result.op = "fft_plan" /\ result.status = "planned" /\ ~ZeroDimension) =>
        LET pw == result.padded_width
            len == result.len
        IN  /\ \A x \in 0 .. (width - 1) : \A y \in 0 .. (height - 1) :
               \A kx \in 0 .. (kernel.width - 1) : \A ky \in 0 .. (kernel.height - 1) :
                  LET sum == (y * pw + x) + (ky * pw + kx)
                      landed == sum % len
                  IN  /\ landed = sum
                      /\ landed \div pw = y + ky
                      /\ landed % pw = x + kx
            /\ \A x \in 0 .. (width - 1) : \A y \in 0 .. (height - 1) :
                  LET read == fft_read_index(x, y, center(kernel), pw)
                  IN  0 <= read /\ read < len

\* a 3x2 grid and a 3x3 kernel were planned, and the product of the last
\* grid sample and the last kernel sample lands on the last buffer element
C17_Witness ==
    /\ result.op = "fft_plan"
    /\ result.status = "planned"
    /\ width = 3 /\ height = 2
    /\ kernel.width = 3 /\ kernel.height = 3
    /\ result.len = 20
    /\ ((height - 1) * result.padded_width + (width - 1))
         + ((kernel.height - 1) * result.padded_width + (kernel.width - 1))
       = result.len - 1

\* ------------------------------------------------------------------------
\* Vocabulary of the preset tables
\* ------------------------------------------------------------------------
\* k is a side x side table of integer numerators over den that sum to den
BinomialTable(k, side, den) ==
    /\ k.width = side /\ k.height = side
    /\ Len(k.cells) = side
    /\ \A y \in 1 .. side : Len(k.cells[y]) = side
    /\ \A y \in 1 .. side : \A x \in 1 .. side :
          RMul(k.cells[y][x], <<den, 1>>)[2] = 1
    /\ RMul(KernelSum(k), <<den, 1>>) = <<den, 1>>
    /\ KernelSum(k) = One

\* ------------------------------------------------------------------------
\* C15.  Each preset kernel has width * height weights (3x3, 5x5, 7x7) and
\* its weights sum to 1.0: the integer numerators of gauss3, gauss5 and
\* gauss7 sum to exactly 16, 256 and 4096.
\* ------------------------------------------------------------------------
C15_PresetsSumToOne ==
    /\ (result.op = "kernel" /\ kernel = gauss3) => BinomialTable(kernel, 3, 16)
    /\ (result.op = "kernel" /\ kernel = gauss5) => BinomialTable(kernel, 5, 256)
    /\ (result.op = "kernel" /\ kernel = gauss7) => BinomialTable(kernel, 7, 4096)

\* gauss7 was built and a grid was convolved with it
C15_Witness ==
    /\ result.op = "kernel"
    /\ kernel = gauss7
    /\ Returned
    /\ cells # pre

\* ------------------------------------------------------------------------
\* The sequential convolvers of grid.rs, one pixel at a time
\* ------------------------------------------------------------------------
\* Grid::convolve: let mut new_cells = self.cells.clone()
ConvolveStart(k) ==
    /\ pc = "idle"
    /\ calls < MaxCalls
    /\ new_cells' = cells
    /\ pos' = <<0>>
    /\ cuts' = <<>>
    /\ accs' = <<>>
    /\ alive' = {}
    /\ writes' = NoMap
    /\ kernel' = k
    /\ strategy' = "direct"
    /\ pre' = cells
    /\ calls' = calls + 1
    /\ pc' = "direct"
    /\ UNCHANGED <<result, width, height, cells>>

\* the mutant of ConvolveStep: the pixel is stored into self.cells
ConvolveStep_InPlace ==
    /\ pc = "direct"
    /\ pos[1] < width * height
    /\ LET idx == pos[1]
           color == convolve_pixel(cells, width, height, kernel,
                                   idx % width, idx \div width)
       IN  /\ cells' = [cells EXCEPT ![idx + 1] = Cell(color)]
           /\ new_cells' = [new_cells EXCEPT ![idx + 1] = Cell(color)]
           /\ pos' = <<idx + 1>>
    /\ UNCHANGED <<result, width, height, kernel, strategy, pc, pre, calls,
                   cuts, accs, alive, writes>>

\* one pass of the body of the x/y loops: the taps are read from self.cells
\* through self.get, the pixel is stored into new_cells
ConvolveStep ==
    /\ pc = "direct"
    /\ pos[1] < width * height
    /\ LET idx == pos[1]
           color == convolve_pixel(cells, width, height, kernel,
                                   idx % width, idx \div width)
       IN  /\ new_cells' = [new_cells EXCEPT ![idx + 1] = Cell(color)]
           /\ pos' = <<idx + 1>>
    /\ UNCHANGED <<result, width, height, cells, kernel, strategy, pc, pre, calls,
                   cuts, accs, alive, writes>>

\* self.cells = new_cells
ConvolveFinish ==
    /\ pc = "direct"
    /\ pos[1] = width * height
    /\ cells' = new_cells
    /\ pc' = "idle"
    /\ UNCHANGED <<result, width, height, kernel, strategy, pre, calls, par_vars>>

\* Grid::convolve_fft up to the end of the inverse transforms: the cells are
\* copied into the padded buffers and transformed.  new_cells holds, per
\* pixel, the normalised and clamped value the read-back will take out of
\* the buffers.
FftLoad(k) ==
    /\ pc = "idle"
    /\ calls < MaxCalls
    /\ new_cells' = convolve_fft(cells, width, height, k)
    /\ pos' = <<0>>
    /\ cuts' = <<>>
    /\ accs' = <<>>
    /\ alive' = {}
    /\ writes' = NoMap
    /\ kernel' = k
    /\ strategy' = "fft"
    /\ pre' = cells
    /\ calls' = calls + 1
    /\ pc' = "fft_write"
    /\ UNCHANGED <<result, width, height, cells>>

\* one pass of the read-back loop: the pixel is taken from the buffers and
\* stored into self.cells through get_mut
FftWriteStep ==
    /\ pc = "fft_write"
    /\ pos[1] < width * height
    /\ LET idx == pos[1]
       IN  /\ cells' = [cells EXCEPT ![idx + 1] = new_cells[idx + 1]]
           /\ pos' = <<idx + 1>>
    /\ UNCHANGED <<result, width, height, kernel, strategy, pc, pre, calls,
                   cuts, accs, alive, new_cells, writes>>

FftFinish ==
    /\ pc = "fft_write"
    /\ pos[1] = width * height
    /\ pc' = "idle"
    /\ UNCHANGED <<result, width, height, cells, kernel, strategy, pre, calls, par_vars>>

NextSteps ==
    \/ \E k \in Kernels : ConvolveStart(k)
    \/ ConvolveStep
    \/ ConvolveFinish
    \/ \E k \in Kernels : FftLoad(k)
    \/ FftWriteStep
    \/ FftFinish
    \/ \E k \in Kernels : ConvolveParFork(k)
    \/ \E j \in 1 .. NumPieces : FoldStep(j)
    \/ \E j \in 1 .. NumPieces : Reduce(j)
    \/ WriteBack
    \/ \E k \in Kernels : ParChunksFork(k)
    \/ \E j \in 1 .. NumPieces : ChunkStep(j)
    \/ ChunksJoin

SpecSteps == Init /\ [][NextSteps]_vars

\* the grid a convolver returns for the grid gcells it was called on
Output(strat, gcells, k) ==
    CASE strat = "direct" -> convolve(gcells, width, height, k)
      [] strat = "fft" -> convolve_fft(gcells, width, height, k)
      [] strat = "par" -> convolve_par(gcells, width, height, k)
      [] strat = "parchunks" -> ParConvolver_convolve(gcells, width, height, k)
      [] strat = "simple" -> SimpleConvolver_convolve(gcells, width, height, k)
      [] strat = "fftconv" -> FftConvolver_convolve(gcells, width, height, k)

\* a step of the call in progress will still read cells of the grid
ReadsPending == pc \in {"direct", "fold", "chunks"}

\* ------------------------------------------------------------------------
\* C16.  In every strategy each output pixel is computed only from the cell
\* values the grid held when convolve was called: as long as a step of the
\* call still reads the grid, no cell of the grid has been overwritten;
\* every pixel already computed is the pixel of the grid as it was at the
\* call; and the grid returned is the convolver's function of that grid.
\* ------------------------------------------------------------------------
C16_NoReadAfterWrite ==
    /\ ReadsPending => cells = pre
    /\ pc = "direct" =>
          \A i \in 1 .. pos[1] :
              new_cells[i] = Output("direct", pre, kernel)[i]
    /\ pc = "fft_write" =>
          \A i \in DOMAIN cells :
              cells[i] = IF i <= pos[1] THEN Output("fft", pre, kernel)[i] ELSE pre[i]
    /\ Returned => cells = Output(strategy, pre, kernel)

\* the direct convolver has stored some pixels that differ from the input
\* into new_cells and has pixels left to compute from the grid
C16_Witness ==
    /\ pc = "direct"
    /\ 0 < pos[1] /\ pos[1] < width * height
    /\ new_cells[1] # pre[1]
    /\ kernel = gauss3
    /\ cells = pre

\* ------------------------------------------------------------------------
\* Vocabulary of channel independence
\* ------------------------------------------------------------------------
\* gcells with channel ch of every cell replaced by 1 - its value
Complemented(gcells, ch) ==
    [i \in DOMAIN gcells |->
        Cell([gcells[i].color EXCEPT ![ch] = RAdd(One, RNeg(@))])]

\* gcells with the channels c1 and c2 of every cell exchanged
Swapped(gcells, c1, c2) ==
    [i \in DOMAIN gcells |->
        Cell([gcells[i].color EXCEPT ![c1] = gcells[i].color[c2],
                                     ![c2] = gcells[i].color[c1]])]

\* ------------------------------------------------------------------------
\* C18.  Every convolver treats r, g, b and a independently and alike: a
\* grid that differs from the input only in one channel gives an output
\* that differs from the output at most in that channel, and alpha is
\* accumulated over the taps exactly like a colour channel, so exchanging
\* alpha with r (g, b) in the input exchanges them in the output.
\* ------------------------------------------------------------------------
C18_ChannelsIndependentAndAlike ==
    Returned =>
        /\ \A ch \in Channels :
              LET other == Output(strategy, Complemented(pre, ch), kernel)
              IN  \A i \in DOMAIN cells : \A c \in Channels \ {ch} :
                      other[i].color[c] = cells[i].color[c]
        /\ \A c \in {"r", "g", "b"} :
              Output(strategy, Swapped(pre, "a", c), kernel) = Swapped(cells, "a", c)

====
